---- MODULE Spec2Model ----
(***************************************************************************)
(* Model of the keep-ui front end: the workflow-definition validators      *)
(* (globalValidator, stepValidator), the grouping done by AlertTable and    *)
(* the panel state of ProvidersTiles.                                       *)
(***************************************************************************)
EXTENDS Integers, Sequences, FiniteSets, TLC

VARIABLES
  definition,             \* the Definition handed to globalValidator
  globalValidationError,  \* holder written through setGlobalValidationError
  globalCalled,           \* globalValidator has run at least once
  globalValid,            \* value returned by the most recent globalValidator
  step,                   \* the Step handed to stepValidator
  stepValidationError,    \* holder written through setStepValidationError
  stepCalled,             \* stepValidator has run at least once
  stepValid,              \* value returned by the most recent stepValidator
  stepSetterCalls,        \* values passed to the setter by the most recent call
  data,                   \* AlertTable prop: the array of alerts
  groupBy,                \* AlertTable prop: the key to group by ("" = unset)
  groupedByData,          \* key -> alerts of the group, in Object.keys order
  aggregatedData,         \* the array handed to AlertsTableBody
  rendered,               \* AlertTable has rendered at least once
  openPanel,              \* ProvidersTiles state
  selectedProvider,       \* ProvidersTiles state (0 = null, else provider id)
  formValues,             \* ProvidersTiles state
  formErrors,             \* ProvidersTiles state
  installedProvidersMode, \* ProvidersTiles prop
  lastHandler             \* the ProvidersTiles handler that ran last

globalVars == <<definition, globalValidationError, globalCalled, globalValid>>
stepVars == <<step, stepValidationError, stepCalled, stepValid, stepSetterCalls>>
alertVars == <<data, groupBy, groupedByData, aggregatedData, rendered>>
tilesVars == <<openPanel, selectedProvider, formValues, formErrors,
               installedProvidersMode, lastHandler>>
vars == <<globalVars, stepVars, alertVars, tilesVars>>

----------------------------------------------------------------------------
(* Bounds *)
MaxRoot == 2       \* longest root sequence
MaxNested == 2     \* longest nested sequence of a root entry
MaxChildren == 2   \* longest sequence / branches.true of a validated step
MaxAlerts == 3     \* longest data array
MaxTime == 3       \* hours in the modelled day

----------------------------------------------------------------------------
(* Strings that the code searches are sequences of characters. *)
Null == "null"

TypeStep == <<"s","t","e","p","-","x">>
TypeAction == <<"a","c","t","i","o","n","-","x">>
TypeCondition == <<"c","o","n","d","i","t","i","o","n","-","x">>
TypeForeach == <<"f","o","r","e","a","c","h">>
TypeAlert == <<"a","l","e","r","t">>

SubStep == <<"s","t","e","p","-">>
SubAction == <<"a","c","t","i","o","n","-">>
SubCondition == <<"c","o","n","d","i","t","i","o","n","-">>

\* String.prototype.includes
Includes(s, sub) ==
  \E i \in 1..(Len(s) - Len(sub) + 1) : SubSeq(s, i, i + Len(sub) - 1) = sub

SeqsUpTo(S, n) == UNION {[1..k -> S] : k \in 0..n}

MsgContainer == "Please place the steps/actions within the workflow container."
MsgAtLeastOne == "At least 1 step/action is required within the workflow container."
MsgStepsAfterActions == "Cannot have steps after actions."
MsgForeach == "Foreach can only contain conditions."
MsgOnlyActions == "Conditions can only contain actions."
MsgNoActions == "Conditions must contain at least one action."
MsgName == "Step name cannot be empty."
MsgWith == "A step/action must have at least 1 parameters configured"

GlobalMessages == {MsgContainer, MsgAtLeastOne, MsgStepsAfterActions}
StepMessages == {MsgForeach, MsgOnlyActions, MsgNoActions, MsgName, MsgWith}

----------------------------------------------------------------------------
(* globalValidator *)

NodeTypes == {TypeStep, TypeAction, TypeCondition}
Node(t) == [type |-> t]

\* A root entry: a step that may or may not carry a nested sequence.
PlainRootEntry == [type |-> TypeStep, hasSequence |-> FALSE, sequence |-> <<>>]
ContainerRootEntry(s) == [type |-> TypeAlert, hasSequence |-> TRUE, sequence |-> s]

\* Array.prototype.findIndex on the "action-" predicate, 1-based, 0 = none
ActionIndex(s) ==
  IF \E i \in 1..Len(s) : Includes(s[i].type, SubAction)
  THEN CHOOSE i \in 1..Len(s) :
         /\ Includes(s[i].type, SubAction)
         /\ \A j \in 1..(i - 1) : ~Includes(s[j].type, SubAction)
  ELSE 0

\* the for loop of lines 169-182: a "step-" node after the first action
StepAfterActionMut(s) == FALSE

StepAfterAction(s) ==
  \E i \in (ActionIndex(s) + 1)..Len(s) : Includes(s[i].type, SubStep)

OnlyOneAlert(d) == Len(d.sequence) = 1

\* workflow?.sequence?.length > 0
AnyStepOrAction(d) ==
  /\ Len(d.sequence) > 0
  /\ d.sequence[1].hasSequence
  /\ Len(d.sequence[1].sequence) > 0

\* (definition.sequence[0])?.sequence?.some(type includes "action-")
AnyActionsInMainSequence(d) ==
  /\ Len(d.sequence) > 0
  /\ d.sequence[1].hasSequence
  /\ ActionIndex(d.sequence[1].sequence) > 0

\* The result of one call: the returned boolean and the holder afterwards.
globalValidatorMutKeep(d, err) ==
  LET valid == OnlyOneAlert(d) /\ AnyStepOrAction(d)
  IN IF AnyActionsInMainSequence(d) /\ StepAfterAction(d.sequence[1].sequence)
     THEN [ret |-> FALSE, err |-> MsgStepsAfterActions]
     ELSE [ret |-> valid,
           err |-> IF ~OnlyOneAlert(d) THEN MsgContainer
                   ELSE IF ~AnyStepOrAction(d) THEN err ELSE Null]

globalValidator(d, err) ==
  LET onlyOneAlert == OnlyOneAlert(d)
      e1 == IF ~onlyOneAlert THEN MsgContainer ELSE err
      anyStepOrAction == AnyStepOrAction(d)
      e2 == IF onlyOneAlert /\ ~anyStepOrAction THEN MsgAtLeastOne ELSE e1
      valid == onlyOneAlert /\ anyStepOrAction
  IN IF AnyActionsInMainSequence(d) /\ StepAfterAction(d.sequence[1].sequence)
     THEN [ret |-> FALSE, err |-> MsgStepsAfterActions]
     ELSE [ret |-> valid, err |-> IF valid THEN Null ELSE e2]

InsertAt(s, p, x) == SubSeq(s, 1, p - 1) \o <<x>> \o SubSeq(s, p, Len(s))
RemoveAt(s, p) == SubSeq(s, 1, p - 1) \o SubSeq(s, p + 1, Len(s))

\* The definitions one edit of the designer away from d.
EditedDefinitions(d) ==
  LET root == d.sequence IN
  {[sequence |-> Append(root, e)] :
      e \in IF Len(root) < MaxRoot
            THEN {PlainRootEntry, ContainerRootEntry(<<>>)} ELSE {}}
  \cup {[sequence |-> RemoveAt(root, i)] : i \in 1..Len(root)}
  \cup UNION {
        {[sequence |-> [root EXCEPT ![i].sequence = InsertAt(@, p, Node(t))]] :
            p \in IF root[i].hasSequence /\ Len(root[i].sequence) < MaxNested
                  THEN 1..(Len(root[i].sequence) + 1) ELSE {},
            t \in NodeTypes}
        \cup
        {[sequence |-> [root EXCEPT ![i].sequence = RemoveAt(@, p)]] :
            p \in 1..Len(root[i].sequence)}
        : i \in 1..Len(root)}

\* The designer changes the definition and validates it.
GlobalValidate ==
  \E d \in EditedDefinitions(definition) :
    LET r == globalValidator(d, globalValidationError) IN
    /\ definition' = d
    /\ globalValidationError' = r.err
    /\ globalValid' = r.ret
    /\ globalCalled' = TRUE
    /\ UNCHANGED <<stepVars, alertVars, tilesVars>>

GlobalInit ==
  /\ definition = [sequence |-> <<>>]
  /\ globalValidationError \in {Null} \cup GlobalMessages
  /\ globalCalled = FALSE
  /\ globalValid = FALSE

----------------------------------------------------------------------------
(* stepValidator *)

ComponentTypes == {"task", "container", "switch"}
Names == {"", "my-step"}
WithValues == {"undefined", "object"}     \* step.properties.with
Truthy(w) == w # "undefined"

ChildSeqs == SeqsUpTo({Node(t) : t \in NodeTypes}, MaxChildren)

\* sequence is read for a foreach, branchesTrue for a condition.
Steps ==
  {[type |-> TypeForeach, componentType |-> c, name |-> n, with |-> w,
    sequence |-> ch, branchesTrue |-> <<>>] :
      c \in ComponentTypes, n \in Names, w \in WithValues, ch \in ChildSeqs}
  \cup
  {[type |-> TypeCondition, componentType |-> c, name |-> n, with |-> w,
    sequence |-> <<>>, branchesTrue |-> ch] :
      c \in ComponentTypes, n \in Names, w \in WithValues, ch \in ChildSeqs}
  \cup
  {[type |-> t, componentType |-> c, name |-> n, with |-> w,
    sequence |-> <<>>, branchesTrue |-> <<>>] :
      t \in {TypeStep, TypeAction}, c \in ComponentTypes, n \in Names,
      w \in WithValues}

\* sequence.some(step => !step.type.includes("condition-"))
ForeachIncludesNotCondition(s) ==
  \E i \in 1..Len(s.sequence) : ~Includes(s.sequence[i].type, SubCondition)

\* branches.true.every(step => step.type.includes("action-"))
OnlyActions(s) ==
  \A i \in 1..Len(s.branchesTrue) : Includes(s.branchesTrue[i].type, SubAction)

ConditionHasActions(s) == Len(s.branchesTrue) > 0

\* lines 205-219: the returned boolean and the setter calls, in order
conditionBranchMut(s) ==
  IF ~OnlyActions(s)
  THEN [ret |-> FALSE, calls |-> <<MsgOnlyActions>>]
  ELSE LET valid == ConditionHasActions(s) /\ OnlyActions(s)
       IN [ret |-> valid /\ s.name # "",
           calls |-> (IF ~ConditionHasActions(s) THEN <<MsgNoActions>> ELSE <<>>)
                     \o (IF valid THEN <<Null>> ELSE <<>>)]

conditionBranch(s) ==
  IF ~OnlyActions(s)
  THEN [ret |-> FALSE, calls |-> <<MsgOnlyActions>>]
  ELSE LET valid == ConditionHasActions(s) /\ OnlyActions(s)
       IN [ret |-> valid,
           calls |-> (IF ~ConditionHasActions(s) THEN <<MsgNoActions>> ELSE <<>>)
                     \o (IF valid THEN <<Null>> ELSE <<>>)]

\* lines 220-226
taskBranchMut(s) ==
  LET valid == s.name # "" /\ Truthy(s.with)
  IN [ret |-> valid,
      calls |-> (IF s.name = "" THEN <<MsgName>> ELSE <<>>)
                \o (IF ~Truthy(s.with) THEN <<MsgWith>> ELSE <<>>)
                \o (IF valid THEN <<Null>> ELSE <<>>)]

taskBranch(s) ==
  LET valid == s.name # ""
  IN [ret |-> valid,
      calls |-> (IF ~valid THEN <<MsgName>> ELSE <<>>)
                \o (IF ~Truthy(s.with) THEN <<MsgWith>> ELSE <<>>)
                \o (IF valid /\ Truthy(s.with) THEN <<Null>> ELSE <<>>)]

\* line 227 and the fall-through of a foreach that passed its check
passThroughMut(s) == [ret |-> TRUE, calls |-> <<Null>>]

passThrough(s) == [ret |-> TRUE, calls |-> <<>>]

stepValidator(s) ==
  IF s.type = TypeForeach /\ ForeachIncludesNotCondition(s)
  THEN [ret |-> FALSE, calls |-> <<MsgForeach>>]
  ELSE IF Includes(s.type, SubCondition) THEN conditionBranch(s)
  ELSE IF s.componentType = "task" THEN taskBranch(s)
  ELSE passThrough(s)

\* the holder after the setter calls of one run
HolderAfter(err, calls) == IF calls = <<>> THEN err ELSE calls[Len(calls)]

StepValidate ==
  \E s \in Steps :
    LET r == stepValidator(s) IN
    /\ step' = s
    /\ stepValid' = r.ret
    /\ stepSetterCalls' = r.calls
    /\ stepValidationError' = HolderAfter(stepValidationError, r.calls)
    /\ stepCalled' = TRUE
    /\ UNCHANGED <<globalVars, alertVars, tilesVars>>

StepInit ==
  /\ step = [type |-> TypeStep, componentType |-> "container", name |-> "",
             with |-> "undefined", sequence |-> <<>>, branchesTrue |-> <<>>]
  /\ stepValidationError \in {Null} \cup StepMessages
  /\ stepCalled = FALSE
  /\ stepValid = FALSE
  /\ stepSetterCalls = <<>>

----------------------------------------------------------------------------
(* AlertTable *)

AlertNames == {"a", "b"}
\* lastReceived is a two-digit hour string, kept as its digits
LastReceivedValues == {<<h \div 10, h % 10>> : h \in 1..MaxTime}
Alerts == [name : AlertNames, lastReceived : LastReceivedValues]
GroupByValues == {"", "name", "fingerprint"}

\* new Date(lastReceived).getTime()
GetTime(l) == 10 * l[1] + l[2]

\* (alert as any)[groupBy] used as an object key; alerts carry no fingerprint
KeyOf(alert, g) == IF g = "name" THEN alert.name ELSE "undefined"

\* data.reduce(...): the groups, in the order Object.keys lists them
RECURSIVE Reduce(_, _, _)
Reduce(acc, s, g) ==
  IF s = <<>> THEN acc
  ELSE LET alert == Head(s)
           key == KeyOf(alert, g)
           acc2 == IF \E i \in 1..Len(acc) : acc[i].key = key
                   THEN [i \in 1..Len(acc) |->
                           IF acc[i].key = key
                           THEN [acc[i] EXCEPT !.alerts = Append(@, alert)]
                           ELSE acc[i]]
                   ELSE Append(acc, [key |-> key, alerts |-> <<alert>>])
       IN Reduce(acc2, Tail(s), g)

\* Array.prototype.sort with the lastReceived comparator (stable)
RECURSIVE SortByLastReceived(_)
SortByLastReceived(s) ==
  IF s = <<>> THEN <<>>
  ELSE LET rest == SortByLastReceived(SubSeq(s, 1, Len(s) - 1))
           x == s[Len(s)]
           k == Cardinality({i \in 1..Len(rest) :
                   GetTime(rest[i].lastReceived) - GetTime(x.lastReceived) <= 0})
       IN InsertAt(rest, k + 1, x)

\* groupedByData[key][0]
GroupRepresentative(group) == group.alerts[1]

Aggregate(d, g) ==
  IF g # ""
  THEN LET grouped == Reduce(<<>>, d, g)
       IN [grouped |-> grouped,
           aggregated |-> SortByLastReceived(
              [i \in 1..Len(grouped) |-> GroupRepresentative(grouped[i])])]
  ELSE [grouped |-> <<>>, aggregated |-> SortByLastReceived(d)]

\* The data prop one change away from d
ChangedData(d) ==
  {InsertAt(d, p, a) : p \in IF Len(d) < MaxAlerts THEN 1..(Len(d) + 1) ELSE {},
                       a \in Alerts}
  \cup {RemoveAt(d, p) : p \in 1..Len(d)}

\* One render of AlertTable with new props.
Render ==
  \E d \in ChangedData(data), g \in GroupByValues :
    LET r == Aggregate(d, g) IN
    /\ groupBy' = g
    /\ groupedByData' = r.grouped
    /\ aggregatedData' = r.aggregated
    \* without groupBy, aggregatedData aliases data and sort works in place
    /\ data' = IF g # "" THEN d ELSE r.aggregated
    /\ rendered' = TRUE
    /\ UNCHANGED <<globalVars, stepVars, tilesVars>>

AlertInit ==
  /\ data = <<>>
  /\ groupBy = ""
  /\ groupedByData = <<>>
  /\ aggregatedData = <<>>
  /\ rendered = FALSE

----------------------------------------------------------------------------
(* ProvidersTiles *)

NoProvider == 0     \* selectedProvider === null
EmptyMap == [k \in {} |-> ""]
FormKeys == {"provider_name", "api_key"}
FormStrings == {"", "v"}
FormMaps == UNION {[ks -> FormStrings] : ks \in SUBSET FormKeys}

\* { ...a, ...b }
Spread(a, b) ==
  [k \in DOMAIN a \cup DOMAIN b |-> IF k \in DOMAIN b THEN b[k] ELSE a[k]]

\* The providers prop: two configured providers of one type and one provider
\* whose config is empty.
ProviderList ==
  << [id |-> 1, type |-> "slack", name |-> "slack-prod", hasConfig |-> TRUE,
      authentication |-> [api_key |-> "k1"]],
     [id |-> 2, type |-> "slack", name |-> "slack-dev", hasConfig |-> TRUE,
      authentication |-> [provider_name |-> "renamed", api_key |-> "k2"]],
     [id |-> 3, type |-> "mock", name |-> "mock", hasConfig |-> FALSE,
      authentication |-> EmptyMap] >>

\* providers.filter(config non-empty): the tiles that can be clicked
ProvidersWithConfig == {i \in 1..Len(ProviderList) : ProviderList[i].hasConfig}

\* providers.find(provider => provider.type === providerType), 0 = undefined
FindProvider(providerType) ==
  IF \E i \in 1..Len(ProviderList) : ProviderList[i].type = providerType
  THEN CHOOSE i \in 1..Len(ProviderList) :
         /\ ProviderList[i].type = providerType
         /\ \A j \in 1..(i - 1) : ProviderList[j].type # providerType
  ELSE NoProvider

SearchTypes == {"", "slack", "mock", "pagerduty"}   \* "" = parameter absent
SearchNames == {"", "from-url"}

\* the useEffect of lines 35-50
UrlParamEffect ==
  \E providerType \in SearchTypes, providerName \in SearchNames :
    LET provider == FindProvider(providerType) IN
    /\ IF providerType # "" /\ providerName # "" /\ provider # NoProvider
       THEN /\ selectedProvider' = provider
            /\ formValues' = [provider_name |-> providerName]
            /\ openPanel' = TRUE
       ELSE UNCHANGED <<selectedProvider, formValues, openPanel>>
    /\ lastHandler' = "effect"
    /\ UNCHANGED <<formErrors, installedProvidersMode>>
    /\ UNCHANGED <<globalVars, stepVars, alertVars>>

handleFormChange ==
  \E updatedFormValues \in FormMaps, updatedFormErrors \in FormMaps :
    /\ formValues' = updatedFormValues
    /\ formErrors' = updatedFormErrors
    /\ lastHandler' = "formChange"
    /\ UNCHANGED <<openPanel, selectedProvider, installedProvidersMode>>
    /\ UNCHANGED <<globalVars, stepVars, alertVars>>

handleConnectProvider ==
  \E provider \in ProvidersWithConfig :
    /\ selectedProvider' = provider
    /\ formValues' =
         IF installedProvidersMode
         THEN Spread([provider_name |-> ProviderList[provider].name],
                     ProviderList[provider].authentication)
         ELSE formValues
    /\ openPanel' = TRUE
    /\ lastHandler' = "connectProvider"
    /\ UNCHANGED <<formErrors, installedProvidersMode>>
    /\ UNCHANGED <<globalVars, stepVars, alertVars>>

\* the state writes of handleCloseModal, lines 73-77
CloseModalMut ==
  /\ openPanel' = FALSE
  /\ selectedProvider' = NoProvider
  /\ formValues' = EmptyMap
  /\ UNCHANGED formErrors

CloseModal ==
  /\ openPanel' = FALSE
  /\ selectedProvider' = NoProvider
  /\ formValues' = EmptyMap
  /\ formErrors' = EmptyMap

handleCloseModal ==
  /\ CloseModal
  /\ lastHandler' = "closeModal"
  /\ UNCHANGED installedProvidersMode
  /\ UNCHANGED <<globalVars, stepVars, alertVars>>

handleConnecting ==
  \E isConnecting \in BOOLEAN, isConnected \in BOOLEAN :
    /\ IF isConnected
       THEN CloseModal
       ELSE UNCHANGED <<openPanel, selectedProvider, formValues, formErrors>>
    /\ lastHandler' = IF isConnected THEN "connected" ELSE "notConnected"
    /\ UNCHANGED installedProvidersMode
    /\ UNCHANGED <<globalVars, stepVars, alertVars>>

TilesInit ==
  /\ openPanel = FALSE
  /\ selectedProvider = NoProvider
  /\ formValues = EmptyMap
  /\ formErrors = EmptyMap
  /\ installedProvidersMode \in BOOLEAN
  /\ lastHandler = "mount"

----------------------------------------------------------------------------
(* Specifications: one per component, the other components at rest *)

GlobalIdle ==
  /\ definition = [sequence |-> <<>>]
  /\ globalValidationError = Null
  /\ globalCalled = FALSE
  /\ globalValid = FALSE

StepIdle ==
  /\ step = [type |-> TypeStep, componentType |-> "container", name |-> "",
             with |-> "undefined", sequence |-> <<>>, branchesTrue |-> <<>>]
  /\ stepValidationError = Null
  /\ stepCalled = FALSE
  /\ stepValid = FALSE
  /\ stepSetterCalls = <<>>

TilesIdle ==
  /\ openPanel = FALSE
  /\ selectedProvider = NoProvider
  /\ formValues = EmptyMap
  /\ formErrors = EmptyMap
  /\ installedProvidersMode = FALSE
  /\ lastHandler = "mount"

Init == GlobalInit /\ StepIdle /\ AlertInit /\ TilesIdle
Next == GlobalValidate
Spec == Init /\ [][Next]_vars

StepSpecInit == GlobalIdle /\ StepInit /\ AlertInit /\ TilesIdle
StepNext == StepValidate
StepSpec == StepSpecInit /\ [][StepNext]_vars

AlertSpecInit == GlobalIdle /\ StepIdle /\ AlertInit /\ TilesIdle
AlertNext == Render
AlertSpec == AlertSpecInit /\ [][AlertNext]_vars

TilesSpecInit == GlobalIdle /\ StepIdle /\ AlertInit /\ TilesInit
TilesNext ==
  \/ UrlParamEffect
  \/ handleFormChange
  \/ handleConnectProvider
  \/ handleCloseModal
  \/ handleConnecting
TilesSpec == TilesSpecInit /\ [][TilesNext]_vars

----------------------------------------------------------------------------
(* Properties of globalValidator, checked under Spec *)

Root == definition.sequence
Nested == Root[1].sequence

\* some node with "step-" in its type comes after a node with "action-"
StepFollowsAction(s) ==
  \E i \in 1..Len(s) : \E j \in (i + 1)..Len(s) :
    Includes(s[i].type, SubAction) /\ Includes(s[j].type, SubStep)

\* C1: globalValidator returns true iff the root sequence has exactly one
\* element, that element's nested sequence is non-empty and no "step-" node
\* follows the first "action-" node; [action-A, step-B] is invalid and
\* [step-B, action-A] is valid.
C1_ValidIff ==
  globalCalled =>
    /\ globalValid <=> /\ Len(Root) = 1
                       /\ Root[1].hasSequence
                       /\ Len(Nested) > 0
                       /\ ~StepFollowsAction(Nested)
    /\ Len(Root) # 1 => ~globalValid
    /\ Root = <<ContainerRootEntry(<<Node(TypeAction), Node(TypeStep)>>)>>
         => ~globalValid
    /\ Root = <<ContainerRootEntry(<<Node(TypeStep), Node(TypeAction)>>)>>
         => globalValid

C1_Witness ==
  /\ globalCalled
  /\ Root = <<ContainerRootEntry(<<Node(TypeStep), Node(TypeAction)>>)>>
  /\ globalValid

\* C2: after a false return the holder carries the message of the first
\* violated rule, in the order rule 1, rule 2, rule 3; in particular the
\* container message whenever the root does not hold exactly one element.
C2_FirstViolatedRuleMessage ==
  globalCalled /\ ~globalValid =>
    globalValidationError =
      IF Len(Root) # 1 THEN MsgContainer
      ELSE IF ~(Root[1].hasSequence /\ Len(Nested) > 0) THEN MsgAtLeastOne
      ELSE MsgStepsAfterActions

\* C3: the holder is null iff the most recent call returned true, and the
\* message after a false return was set by that call: it is the same
\* whatever the holder held before.
C3_HolderNullIffValid ==
  globalCalled =>
    /\ globalValidationError = Null <=> globalValid
    /\ ~globalValid =>
         /\ globalValidationError \in GlobalMessages
         /\ \A before \in {Null} \cup GlobalMessages :
              globalValidator(definition, before).err = globalValidationError

C3_Witness ==
  /\ globalCalled
  /\ ~globalValid
  /\ Len(Root) = 1
  /\ globalValidationError = MsgAtLeastOne

----------------------------------------------------------------------------
(* Properties of stepValidator, checked under StepSpec *)

IsCondition == Includes(step.type, SubCondition)
AllChildrenConditions ==
  \A i \in 1..Len(step.sequence) : Includes(step.sequence[i].type, SubCondition)
AllBranchActions ==
  \A i \in 1..Len(step.branchesTrue) :
    Includes(step.branchesTrue[i].type, SubAction)
IsPlainTask ==
  step.componentType = "task" /\ step.type # TypeForeach /\ ~IsCondition

\* C4: a condition step is valid iff branches.true is non-empty and holds
\* only actions, whatever its componentType, name and properties.
C4_ConditionValidIff ==
  stepCalled /\ IsCondition =>
    (stepValid <=> Len(step.branchesTrue) > 0 /\ AllBranchActions)

C4_Witness ==
  /\ stepCalled
  /\ IsCondition
  /\ step.componentType = "task"
  /\ step.name = ""
  /\ step.with = "undefined"
  /\ step.branchesTrue = <<Node(TypeAction)>>
  /\ stepValid

\* C5: a foreach step is valid iff every child of its nested sequence is a
\* condition, whatever its componentType, name and properties.
C5_ForeachValidIff ==
  stepCalled /\ step.type = TypeForeach => (stepValid <=> AllChildrenConditions)

\* C6: for a task step that is neither foreach nor condition the result is
\* (name non-empty), with properties.with present or absent; a non-empty
\* name with a missing properties.with is valid and leaves the parameters
\* message in the holder.
C6_TaskValidIffName ==
  stepCalled /\ IsPlainTask =>
    /\ stepValid <=> step.name # ""
    /\ step.name # "" /\ ~Truthy(step.with) =>
         stepValid /\ stepValidationError = MsgWith

C6_Witness ==
  /\ stepCalled
  /\ IsPlainTask
  /\ step.name # ""
  /\ ~Truthy(step.with)
  /\ stepValid
  /\ stepValidationError = MsgWith

\* C7: a false return has set the holder during the call, and the final
\* message is the one of the rule that caused the false return.
C7_MessageOfViolatedRule ==
  stepCalled /\ ~stepValid =>
    /\ stepSetterCalls # <<>>
    /\ stepValidationError # Null
    /\ stepValidationError =
         IF step.type = TypeForeach /\ ~AllChildrenConditions THEN MsgForeach
         ELSE IF IsCondition
              THEN IF ~AllBranchActions THEN MsgOnlyActions ELSE MsgNoActions
         ELSE MsgName

\* the steps on which stepValidator is claimed to leave the holder alone
IsPassThrough(s) ==
  /\ s.componentType # "task"
  /\ ~Includes(s.type, SubCondition)
  /\ s.type = TypeForeach =>
       \A i \in 1..Len(s.sequence) : Includes(s.sequence[i].type, SubCondition)

\* C8: on a non-task step that is neither a condition nor a foreach with a
\* non-condition child, stepValidator returns true, never calls the setter
\* and the holder keeps its value; the setter receives null only on the
\* valid-condition path and on the task path with a name and properties.with.
C8_PassThroughFrame ==
  [][ /\ IsPassThrough(step') =>
           /\ stepValid'
           /\ stepSetterCalls' = <<>>
           /\ stepValidationError' = stepValidationError
      /\ (\E i \in 1..Len(stepSetterCalls') : stepSetterCalls'[i] = Null) =>
           \/ /\ Includes(step'.type, SubCondition)
              /\ stepValid'
           \/ /\ ~Includes(step'.type, SubCondition)
              /\ step'.componentType = "task"
              /\ step'.name # ""
              /\ Truthy(step'.with)
    ]_vars

C8_Witness ==
  /\ stepCalled
  /\ step.type = TypeForeach
  /\ Len(step.sequence) > 0
  /\ IsPassThrough(step)
  /\ stepValid
  /\ stepValidationError = MsgName

----------------------------------------------------------------------------
(* Properties of AlertTable, checked under AlertSpec *)

\* C9: with groupBy set the table body gets exactly one alert per distinct
\* groupBy value, each the member of its group with the greatest
\* lastReceived, in non-decreasing lastReceived order.
C9_LastStatePerGroup ==
  rendered /\ groupBy # "" =>
    /\ Len(aggregatedData) =
         Cardinality({KeyOf(data[i], groupBy) : i \in 1..Len(data)})
    /\ \A i \in 1..Len(aggregatedData) :
         /\ \E k \in 1..Len(data) : data[k] = aggregatedData[i]
         /\ \A j \in 1..Len(aggregatedData) :
              i # j => KeyOf(aggregatedData[i], groupBy)
                         # KeyOf(aggregatedData[j], groupBy)
         /\ \A k \in 1..Len(data) :
              KeyOf(data[k], groupBy) = KeyOf(aggregatedData[i], groupBy)
                => GetTime(data[k].lastReceived)
                     <= GetTime(aggregatedData[i].lastReceived)
    /\ \A i \in 1..(Len(aggregatedData) - 1) :
         GetTime(aggregatedData[i].lastReceived)
           <= GetTime(aggregatedData[i + 1].lastReceived)

----------------------------------------------------------------------------
(* Properties of ProvidersTiles, checked under TilesSpec *)

\* C10: openPanel is true iff selectedProvider is non-null; handleCloseModal,
\* also through handleConnecting(_, true), leaves formValues and formErrors
\* empty; handleConnecting(_, false) changes no state.
C10_PanelIffProvider ==
  /\ [](/\ openPanel <=> selectedProvider # NoProvider
        /\ lastHandler \in {"closeModal", "connected"} =>
             /\ formValues = EmptyMap
             /\ formErrors = EmptyMap
             /\ ~openPanel)
  /\ [][lastHandler' = "notConnected" =>
          UNCHANGED <<openPanel, selectedProvider, formValues, formErrors>>]_vars

C10_Witness ==
  /\ lastHandler = "connected"
  /\ ~openPanel
  /\ selectedProvider = NoProvider
  /\ formValues = EmptyMap
  /\ formErrors = EmptyMap

====
